---- MODULE Spec2Model ----
(***************************************************************************)
(* AutoTailor: passwordless sign-in by one-time code, profile management,  *)
(* resume generation, listing, download and deletion (src/app.py,          *)
(* src/models.py, src/adapters/resume_engine.py).                          *)
(*                                                                         *)
(* Text is modelled as a sequence of one-character strings so that strip,  *)
(* lower and the 06d formatting are computed, not assumed.  A nullable     *)
(* column holds {} for NULL and {v} for the value v.  Time is counted in   *)
(* minutes since the start of the run (UTC).                               *)
(***************************************************************************)
EXTENDS Integers, Sequences, FiniteSets, TLC

(* ---------------------------- bounds ---------------------------------- *)
MaxTmpDirs == 1

(* ------------------------ program constants --------------------------- *)
CodeTtl == 10
CodeWidth == 6
MaxCodeNumber == 999999
NameCap == 255
PhoneCap == 64
AboutCap == 5000
UrlCap == 2000
ListLimit == 5
MinutesPerDay == 1440
DateWidth == 8

(* ------------------------- input domains ------------------------------ *)
Clients == {"c1", "c2"}
RawEmails == { <<"A", "@", "x">>, <<"b", "@", "x">>, <<"a">> }
CodeNumbers == {7, 123456}
Instants == {CodeTtl, CodeTtl + 1}

(* --------------------------- text helpers ----------------------------- *)
None == {}
Some(v) == {v}
The(o) == CHOOSE v \in o : TRUE

RECURSIVE LStrip(_)
LStrip(s) == IF s # <<>> /\ Head(s) = " " THEN LStrip(Tail(s)) ELSE s

RECURSIVE RStrip(_)
RStrip(s) ==
    IF s # <<>> /\ s[Len(s)] = " " THEN RStrip(SubSeq(s, 1, Len(s) - 1)) ELSE s

Strip(s) == RStrip(LStrip(s))

LowerChar(ch) ==
    CASE ch = "A" -> "a"
      [] ch = "B" -> "b"
      [] ch = "X" -> "x"
      [] OTHER -> ch

Lower(s) == [i \in DOMAIN s |-> LowerChar(s[i])]

Count(s, ch) == Cardinality({i \in DOMAIN s : s[i] = ch})

(* wtforms DataRequired: data is truthy and, for text, not blank *)
DataRequired(s) == s # <<>> /\ Strip(s) # <<>>

(* wtforms Email: one "@", something on both sides of it, no blank *)
IsEmail(s) ==
    /\ Count(s, "@") = 1
    /\ Count(s, " ") = 0
    /\ s # <<>>
    /\ Head(s) # "@"
    /\ s[Len(s)] # "@"

DigitChars == <<"0", "1", "2", "3", "4", "5", "6", "7", "8", "9">>

RECURSIVE Digits(_)
Digits(n) ==
    IF n < 10 THEN <<DigitChars[n + 1]>>
    ELSE Digits(n \div 10) \o <<DigitChars[(n % 10) + 1]>>

RECURSIVE ZeroPad(_, _)
ZeroPad(s, w) == IF Len(s) >= w THEN s ELSE ZeroPad(<<"0">> \o s, w)

(* f"{n:06d}" *)
FormatCode(n) == ZeroPad(Digits(n), CodeWidth)

SubmittedCodes == {FormatCode(n) : n \in CodeNumbers}

(* ------------------------------ state --------------------------------- *)
VARIABLES
    now,        \* datetime.now(timezone.utc), in minutes
    users,      \* table users: sequence of rows, id = index
    session,    \* per browser: the flask-login session, {} or {user id}
    req,        \* the last request: the operation and its inputs
    resp,       \* the response to the last request
    hist,       \* per normalized email: codes issued by the last two requests, and whether the last was used
    profiles,   \* table profiles: set of rows
    resumes,    \* table generated_resumes: set of rows
    fs,         \* artifact storage: scratch directory -> names of the files in it
    inflight    \* per browser: the request being handled step by step, and what it has read

vars == <<now, users, session, req, resp, hist, profiles, resumes, fs, inflight>>
store == <<profiles, resumes, fs>>

(* the address of the walk through the whole application *)
WalkEmail == <<"a", "@", "x", ".", "c", "o", "m">>

NormEmails == {Lower(Strip(e)) : e \in {r \in RawEmails \cup {WalkEmail} : IsEmail(r)}}

UserIds == DOMAIN users

(* sess.query(User).filter(User.email == email).one_or_none() *)
UserByEmail(email) == {u \in UserIds : users[u].email = email}

(* sess.query(Profile).filter(Profile.user_id == uid).one_or_none() *)
ProfileOf(uid) == {p \in profiles : p.user_id = uid}

Request(op, args) == [op |-> op, args |-> args]

Response(op, status, flash, view, body) ==
    [op |-> op, status |-> status, flash |-> flash, view |-> view, body |-> body]

(* no request of the browser is being handled *)
Idle == [op |-> "none"]

Init ==
    /\ now = 0
    /\ users = <<>>
    /\ session = [c \in Clients |-> None]
    /\ req = Request("none", <<>>)
    /\ resp = Response("none", "none", "", "", <<>>)
    /\ hist = [e \in NormEmails |-> [prev |-> None, last |-> None, used |-> FALSE]]
    /\ profiles = {}
    /\ resumes = {}
    /\ fs = <<>>
    /\ inflight = [c \in Clients |-> Idle]

(* flask-login login_required without a session: redirect to login_view *)
Unauthorized(op) ==
    Response(op, "unauthorized", "Please log in to access this page.", "redirect:signin", <<>>)

(* ----------------------------- sign-in -------------------------------- *)
SigninFormValid(raw) == DataRequired(raw) /\ IsEmail(raw) /\ Len(raw) <= NameCap

NewUser(email) ==
    [email |-> email, verified |-> 0, verify_code |-> None, verify_expiry |-> None]

(* a pending code is kept and only its expiry renewed *)
IssueCodeKeepingPending(u, code) ==
    IF u.verify_code # None
    THEN [u EXCEPT !.verify_expiry = Some(now + CodeTtl)]
    ELSE [u EXCEPT !.verify_code = Some(code), !.verify_expiry = Some(now + CodeTtl)]

IssueCode(u, code) ==
    [u EXCEPT !.verify_code = Some(code), !.verify_expiry = Some(now + CodeTtl)]

(* n: the number random.randint(0, 999999) returns *)
Signin(raw, n) ==
    /\ req' = Request("signin", <<raw>>)
    /\ IF ~SigninFormValid(raw)
       THEN /\ resp' = Response("signin", "validation-failed", "", "signin.html", <<>>)
            /\ UNCHANGED <<now, inflight, users, session, hist, store>>
       ELSE LET email == Lower(Strip(raw))
                found == UserByEmail(email)
                withUser == IF found = {} THEN Append(users, NewUser(email)) ELSE users
                uid == IF found = {} THEN Len(users) + 1 ELSE The(found)
            IN     /\ n \in 0..MaxCodeNumber
                   /\ users' = [withUser EXCEPT ![uid] = IssueCode(withUser[uid], FormatCode(n))]
                   /\ hist' = [hist EXCEPT ![email] =
                                 [prev |-> hist[email].last,
                                  last |-> Some(FormatCode(n)),
                                  used |-> FALSE]]
                   /\ resp' = Response("signin", "ok", "", "redirect:verify", <<>>)
                   /\ UNCHANGED <<now, inflight, session, store>>

(* ------------------------------ verify -------------------------------- *)
VerifyFormValid(raw, code) ==
    /\ DataRequired(raw) /\ IsEmail(raw) /\ Len(raw) <= NameCap
    /\ DataRequired(code) /\ Len(code) >= CodeWidth /\ Len(code) <= CodeWidth

(* the comparison with the expiry is strict *)
CodeAcceptedBeforeExpiry(found, code) ==
    /\ found # {}
    /\ users[The(found)].verify_code = Some(code)
    /\ users[The(found)].verify_expiry # None
    /\ The(users[The(found)].verify_expiry) > now

CodeAccepted(found, code) ==
    /\ found # {}
    /\ users[The(found)].verify_code = Some(code)
    /\ users[The(found)].verify_expiry # None
    /\ The(users[The(found)].verify_expiry) >= now

(* the code is left in place after it was used *)
MarkVerifiedKeepingCode(u) == [u EXCEPT !.verified = 1]

(* the code is cleared and its expiry is left behind *)
MarkVerifiedKeepingExpiry(u) == [u EXCEPT !.verified = 1, !.verify_code = None]

MarkVerified(u) ==
    [u EXCEPT !.verified = 1, !.verify_code = None, !.verify_expiry = None]

(* lines 168-171: where a verified user is sent next *)
Usable(profs) == profs # {} /\ Strip(The(profs).full_name) # <<>>

VerifyRedirect(uid) ==
    IF Usable(ProfileOf(uid)) THEN "redirect:tailor" ELSE "redirect:profile"

VerifyFailure ==
    Response("verify", "invalid-credential", "Invalid or expired code", "redirect:signin", <<>>)

(* a failed attempt burns the pending code *)
RejectAndBurn(found) ==
    /\ resp' = VerifyFailure
    /\ users' = [u \in UserIds |->
                    IF u \in found
                    THEN [users[u] EXCEPT !.verify_code = None, !.verify_expiry = None]
                    ELSE users[u]]
    /\ UNCHANGED <<now, inflight, session, hist, store>>

(* an unknown email is told apart from a bad code *)
RejectNamingReason(found) ==
    /\ resp' = IF found = {}
               THEN Response("verify", "invalid-credential", "No account for this email",
                             "redirect:signin", <<>>)
               ELSE VerifyFailure
    /\ UNCHANGED <<now, inflight, users, session, hist, store>>

(* lines 172-174 *)
Reject(found) ==
    /\ resp' = VerifyFailure
    /\ UNCHANGED <<now, inflight, users, session, hist, store>>

(* the session is bound to the first account of the table *)
LoginFirstUser(c, uid) == [session EXCEPT ![c] = Some(1)]

(* flask-login login_user: the browser's session now names this user *)
LoginUser(c, uid) == [session EXCEPT ![c] = Some(uid)]

(* flask-login user_loader: sess.get(User, int(user_id)) *)
LoadUser(id) == IF id \in UserIds THEN Some(users[id]) ELSE None

CurrentAccount(c) == IF session[c] = None THEN None ELSE LoadUser(The(session[c]))

Verify(c, raw, submitted) ==
    /\ req' = Request("verify", <<c, raw, submitted>>)
    /\ IF ~VerifyFormValid(raw, submitted)
       THEN /\ resp' = Response("verify", "validation-failed", "", "verify.html", <<>>)
            /\ UNCHANGED <<now, inflight, users, session, hist, store>>
       ELSE LET email == Lower(Strip(raw))
                code == Strip(submitted)
                found == UserByEmail(email)
            IN  IF CodeAccepted(found, code)
                THEN /\ users' = [users EXCEPT ![The(found)] = MarkVerified(users[The(found)])]
                     /\ session' = LoginUser(c, The(found))
                     /\ hist' = [hist EXCEPT ![email].used = TRUE]
                     /\ resp' = Response("verify", "ok", "", VerifyRedirect(The(found)), <<>>)
                     /\ UNCHANGED <<now, inflight, store>>
                ELSE Reject(found)

(* POST /verify in two steps, for requests that overlap: first the handler   *)
(* reads the user and tests the code (lines 146-161), later it writes the    *)
(* row, commits and logs the user in (lines 162-171); each request has a     *)
(* session of its own (db.py:26-27) and nothing is locked in between         *)
VerifyBegin(c, raw, submitted) ==
    /\ inflight[c] = Idle
    /\ req' = Request("verify", <<c, raw, submitted>>)
    /\ IF ~VerifyFormValid(raw, submitted)
       THEN /\ resp' = Response("verify", "validation-failed", "", "verify.html", <<>>)
            /\ UNCHANGED <<now, inflight, users, session, hist, store>>
       ELSE LET email == Lower(Strip(raw))
                code == Strip(submitted)
                found == UserByEmail(email)
            IN  IF CodeAccepted(found, code)
                THEN /\ inflight' = [inflight EXCEPT ![c] =
                                       [op |-> "verify", uid |-> The(found), email |-> email,
                                        code |-> code]]
                     /\ UNCHANGED <<now, users, session, resp, hist, store>>
                ELSE Reject(found)

(* UPDATE users SET verified, verify_code, verify_expiry WHERE id = the row  *)
(* read; the statement does not look at the code the row holds by now        *)
VerifyCommit(c) ==
    /\ inflight[c].op = "verify"
    /\ users' = [users EXCEPT ![inflight[c].uid] = MarkVerified(users[inflight[c].uid])]
    /\ session' = LoginUser(c, inflight[c].uid)
    /\ hist' = [hist EXCEPT ![inflight[c].email].used = TRUE]
    /\ resp' = Response("verify", "ok", "", VerifyRedirect(inflight[c].uid), <<>>)
    /\ inflight' = [inflight EXCEPT ![c] = Idle]
    /\ UNCHANGED <<now, req, store>>

(* ------------------------------ logout -------------------------------- *)
Logout(c) ==
    /\ req' = Request("logout", <<c>>)
    /\ session' = [session EXCEPT ![c] = None]
    /\ resp' = Response("logout", "ok", "", "redirect:signin", <<>>)
    /\ UNCHANGED <<now, inflight, users, hist, store>>

(* ------------------------------ profile ------------------------------- *)
(* python: (x or "") on an optional text *)
OrEmpty(o) == IF o = None THEN <<>> ELSE The(o)

(* python: a or b on optional texts *)
PyOr(a, b) == IF OrEmpty(a) # <<>> THEN a ELSE b

(* lines 184-194: when a profile is stored, every field of the form is set from *)
(* it, on POST as on GET, before the form is validated and read               *)
Prefill(form, prof, uid) ==
    [full_name |-> Some(prof.full_name),
     city |-> prof.city,
     email |-> PyOr(prof.email, Some(users[uid].email)),
     phone |-> prof.phone,
     web |-> PyOr(prof.linkedin, prof.github),
     about |-> prof.about,
     gemini_api_key |-> prof.gemini_api_key]

WithinLength(o, cap) == Len(OrEmpty(o)) <= cap

ProfileFormValid(f) ==
    /\ f.full_name # None /\ DataRequired(The(f.full_name)) /\ WithinLength(f.full_name, NameCap)
    /\ WithinLength(f.city, NameCap)
    /\ f.email # None /\ IsEmail(The(f.email)) /\ WithinLength(f.email, NameCap)
    /\ WithinLength(f.phone, PhoneCap)
    /\ WithinLength(f.web, NameCap)
    /\ WithinLength(f.about, AboutCap)
    /\ WithinLength(f.gemini_api_key, NameCap)

(* lines 200-208 and 212-215: the columns written from the form *)
ProfileData(f) ==
    [full_name |-> Strip(The(f.full_name)),
     city |-> Some(Strip(OrEmpty(f.city))),
     email |-> Some(Strip(OrEmpty(f.email))),
     phone |-> Some(Strip(OrEmpty(f.phone))),
     linkedin |-> Some(Strip(OrEmpty(f.web))),
     github |-> None,
     about |-> Some(Strip(OrEmpty(f.about))),
     gemini_api_key |-> Some(Strip(OrEmpty(f.gemini_api_key)))]

Ids(rows) == {r.id : r \in rows}

(* the rowid an INSERT is given: one more than the largest in the table *)
NextId(rows) ==
    IF rows = {} THEN 1 ELSE 1 + CHOOSE m \in Ids(rows) : \A k \in Ids(rows) : k <= m

ProfileRow(id, uid, d) ==
    [id |-> id, user_id |-> uid, full_name |-> d.full_name, city |-> d.city,
     email |-> d.email, phone |-> d.phone, linkedin |-> d.linkedin, github |-> d.github,
     about |-> d.about, gemini_api_key |-> d.gemini_api_key]

ProfilePost(c, submitted) ==
    /\ req' = Request("save_profile", <<c, submitted>>)
    /\ IF session[c] = None
       THEN /\ resp' = Unauthorized("save_profile")
            /\ UNCHANGED <<now, inflight, users, session, hist, store>>
       ELSE LET uid == The(session[c])
                profs == ProfileOf(uid)
                form == IF profs # {} THEN Prefill(submitted, The(profs), uid) ELSE submitted
            IN  IF ~ProfileFormValid(form)
                THEN /\ resp' = Response("save_profile", "validation-failed", "", "profile.html", <<>>)
                     /\ UNCHANGED <<now, inflight, users, session, hist, store>>
                ELSE /\ profiles' =
                           IF profs = {}
                           THEN profiles \cup {ProfileRow(NextId(profiles), uid, ProfileData(form))}
                           ELSE (profiles \ profs)
                                   \cup {ProfileRow(The(profs).id, uid, ProfileData(form))}
                     /\ resp' = Response("save_profile", "ok", "Saved", "redirect:tailor", <<>>)
                     /\ UNCHANGED <<now, inflight, users, session, hist, resumes, fs>>

(* an unhandled exception: the request ends in a 500 and nothing is committed *)
ServerError(op) == Response(op, "error", "", "500", <<>>)

(* POST /profile in two steps, for requests that overlap: first the handler   *)
(* reads the stored profile and validates the form (lines 180-208), later it *)
(* writes and commits (lines 209-226)                                        *)

(* the table has no unique constraint on user_id *)
NoUniqueConstraint(uid) == FALSE

(* uq_profile_user: an INSERT for an account that has a row by now is refused *)
UniqueViolation(uid) == ProfileOf(uid) # {}

ProfileBegin(c, submitted) ==
    /\ inflight[c] = Idle
    /\ req' = Request("save_profile", <<c, submitted>>)
    /\ IF session[c] = None
       THEN resp' = Unauthorized("save_profile") /\ UNCHANGED inflight
       ELSE LET uid == The(session[c])
                profs == ProfileOf(uid)
                form == IF profs # {} THEN Prefill(submitted, The(profs), uid) ELSE submitted
            IN  IF ~ProfileFormValid(form)
                THEN /\ resp' = Response("save_profile", "validation-failed", "",
                                         "profile.html", <<>>)
                     /\ UNCHANGED inflight
                ELSE /\ inflight' = [inflight EXCEPT ![c] =
                                       [op |-> "save_profile", uid |-> uid, seen |-> profs,
                                        data |-> ProfileData(form)]]
                     /\ UNCHANGED resp
    /\ UNCHANGED <<now, users, session, hist, store>>

(* sess.add(prof) or setattr on the row read, then sess.commit(); a refused  *)
(* INSERT raises IntegrityError: a 500, and the session is rolled back       *)
ProfileCommit(c) ==
    /\ inflight[c].op = "save_profile"
    /\ LET uid == inflight[c].uid
           seen == inflight[c].seen
           data == inflight[c].data
       IN  IF seen = {} /\ UniqueViolation(uid)
           THEN resp' = ServerError("save_profile") /\ UNCHANGED profiles
           ELSE /\ profiles' =
                      IF seen = {}
                      THEN profiles \cup {ProfileRow(NextId(profiles), uid, data)}
                      ELSE {IF p.id = The(seen).id THEN ProfileRow(p.id, uid, data) ELSE p :
                               p \in profiles}
                /\ resp' = Response("save_profile", "ok", "Saved", "redirect:tailor", <<>>)
    /\ inflight' = [inflight EXCEPT ![c] = Idle]
    /\ UNCHANGED <<now, users, session, req, hist, resumes, fs>>

(* the route lacks login_required: current_user has no id without a session *)
ProfileGetWithoutLogin(c) ==
    /\ req' = Request("get_profile", <<c>>)
    /\ resp' = IF session[c] = None THEN ServerError("get_profile")
               ELSE Response("get_profile", "ok", "", "profile.html",
                             <<ProfileOf(The(session[c]))>>)
    /\ UNCHANGED <<now, inflight, users, session, hist, store>>

(* GET /profile *)
ProfileGet(c) ==
    /\ req' = Request("get_profile", <<c>>)
    /\ resp' = IF session[c] = None THEN Unauthorized("get_profile")
               ELSE Response("get_profile", "ok", "", "profile.html",
                             <<ProfileOf(The(session[c]))>>)
    /\ UNCHANGED <<now, inflight, users, session, hist, store>>

(* ------------------------------ renderer ------------------------------ *)
(* "_".join(name.split()) *)
RECURSIVE Collapse(_)
Collapse(s) ==
    IF s = <<>> THEN <<>>
    ELSE IF Head(s) = " " THEN <<"_">> \o Collapse(LStrip(s))
    ELSE <<Head(s)>> \o Collapse(Tail(s))

NameSafe(full_name) ==
    IF Strip(full_name) = <<>> THEN <<"Resume">> ELSE Collapse(Strip(full_name))

(* urlparse(jd_url).hostname or "job"; a URL is scheme, host, path *)
HostOf(url) ==
    IF Len(url) >= 2 /\ url[1] \in {"http://", "https://"} /\ url[2] # "/"
    THEN url[2] ELSE "job"

(* datetime.utcnow().strftime("%Y%m%d"): the day of the run, in digits *)
Today == ZeroPad(Digits(now \div MinutesPerDay), DateWidth)

FileName(full_name, url, ext) ==
    <<"Resume_">> \o NameSafe(full_name) \o <<"_", HostOf(url), "_">> \o Today \o <<ext>>

Coverage == "{\"score\": 0.8, \"hits\": [\"sql\"], \"misses\": [\"dbt\"]}"

(* ------------------------------- tailor -------------------------------- *)
Owned(uid) == {r \in resumes : r.user_id = uid}

Min(a, b) == IF a <= b THEN a ELSE b

(* order_by(created_at.desc()).limit(k): the newest row first, then the newest *)
(* of the rest; rows of equal created_at come in any order the database gives *)
RECURSIVE Newest(_, _)
Newest(rows, k) ==
    IF k = 0 \/ rows = {} THEN {<<>>}
    ELSE UNION { {<<r>> \o s : s \in Newest(rows \ {r}, k - 1)} :
                 r \in {x \in rows : \A y \in rows : x.created_at >= y.created_at} }

(* the query without its filter on user_id *)
RecentListsOfAll(uid) == Newest(resumes, ListLimit)

(* lines 285-291 *)
RecentLists(uid) == Newest(Owned(uid), ListLimit)

TailorFormValid(url) == DataRequired(url) /\ Len(url) <= UrlCap

Exists(path) == path.dir \in DOMAIN fs /\ path.name \in fs[path.dir]

ResumeRow(id, uid, url, dir, full_name) ==
    [id |-> id, user_id |-> uid, job_url |-> url, created_at |-> now,
     pdf_path |-> [dir |-> dir, name |-> FileName(full_name, url, ".pdf")],
     docx_path |-> [dir |-> dir, name |-> FileName(full_name, url, ".docx")],
     pdf_name |-> FileName(full_name, url, ".pdf"),
     docx_name |-> FileName(full_name, url, ".docx"),
     coverage_json |-> Coverage]

ProfileIncomplete(op) ==
    Response(op, "profile-incomplete",
             "Please complete your profile (full name is required).", "redirect:profile", <<>>)

(* the scratch directory is made before the renderer is called *)
OnRenderFailureAfterMkdtemp(dir) ==
    /\ resp' = Response("generate", "render-failed",
                        "Failed to generate resume. Check server dependencies (WeasyPrint).",
                        "tailor.html", <<>>)
    /\ fs' = [d \in DOMAIN fs \cup {dir} |-> IF d \in DOMAIN fs THEN fs[d] ELSE {}]
    /\ UNCHANGED <<now, inflight, users, session, hist, profiles, resumes>>

(* lines 260-262 *)
OnRenderFailure(dir) ==
    /\ resp' = Response("generate", "render-failed",
                        "Failed to generate resume. Check server dependencies (WeasyPrint).",
                        "tailor.html", <<>>)
    /\ UNCHANGED <<now, inflight, users, session, hist, store>>

(* the directory is handed out whether or not it is in use *)
InUseOrNot(dir) == TRUE

(* tempfile.mkdtemp creates a directory that did not exist *)
Fresh(dir) == dir \notin DOMAIN fs

(* lines 238-283: the request of a user whose profile is usable *)
Produce(c, rawUrl, rendered, dir) ==
    LET uid == The(session[c])
        profs == ProfileOf(uid)
        url == Strip(rawUrl)
    IN  IF ~TailorFormValid(rawUrl) \/ url = <<>>
        THEN /\ \E recent \in RecentLists(uid) :
                   resp' = Response("generate", "missing-url", "", "tailor.html", recent)
             /\ UNCHANGED <<now, inflight, users, session, hist, store>>
        ELSE IF ~rendered
        THEN OnRenderFailure(dir)
        ELSE LET row == ResumeRow(NextId(resumes), uid, url, dir, The(profs).full_name)
             IN  /\ Fresh(dir)
                 /\ fs' = [d \in DOMAIN fs \cup {dir} |->
                             IF d = dir THEN {row.pdf_path.name, row.docx_path.name}
                             ELSE fs[d]]
                 /\ resumes' = resumes \cup {row}
                 /\ resp' = Response("generate", "ok", "", "redirect:result", <<row.id>>)
                 /\ UNCHANGED <<now, inflight, users, session, hist, profiles>>

(* the profile is not looked at before generating: without one, prof.full_name raises *)
TailorPostWithoutProfileCheck(c, rawUrl, rendered, dir) ==
    /\ req' = Request("generate", <<c, rawUrl>>)
    /\ IF session[c] = None
       THEN /\ resp' = Unauthorized("generate")
            /\ UNCHANGED <<now, inflight, users, session, hist, store>>
       ELSE IF ProfileOf(The(session[c])) = {}
       THEN /\ resp' = ServerError("generate")
            /\ UNCHANGED <<now, inflight, users, session, hist, store>>
       ELSE Produce(c, rawUrl, rendered, dir)

(* POST /tailor; rendered: whether generate_both returns; dir: the name mkdtemp picks *)
TailorPost(c, rawUrl, rendered, dir) ==
    /\ req' = Request("generate", <<c, rawUrl>>)
    /\ IF session[c] = None
       THEN /\ resp' = Unauthorized("generate")
            /\ UNCHANGED <<now, inflight, users, session, hist, store>>
       ELSE IF ~Usable(ProfileOf(The(session[c])))
       THEN /\ resp' = ProfileIncomplete("generate")
            /\ UNCHANGED <<now, inflight, users, session, hist, store>>
       ELSE Produce(c, rawUrl, rendered, dir)

(* POST /tailor step by step, for requests that overlap: the checks and the  *)
(* renderer (lines 231-262), mkdtemp (264), the two writes (267-270) and the  *)
(* insert with its commit (272-284)                                           *)
TailorBegin(c, rawUrl, rendered) ==
    /\ inflight[c] = Idle
    /\ req' = Request("generate", <<c, rawUrl>>)
    /\ IF session[c] = None
       THEN resp' = Unauthorized("generate") /\ UNCHANGED inflight
       ELSE IF ~Usable(ProfileOf(The(session[c])))
       THEN resp' = ProfileIncomplete("generate") /\ UNCHANGED inflight
       ELSE IF ~TailorFormValid(rawUrl) \/ Strip(rawUrl) = <<>>
       THEN /\ \E recent \in RecentLists(The(session[c])) :
                  resp' = Response("generate", "missing-url", "", "tailor.html", recent)
            /\ UNCHANGED inflight
       ELSE IF ~rendered
       THEN /\ resp' = Response("generate", "render-failed",
                               "Failed to generate resume. Check server dependencies (WeasyPrint).",
                               "tailor.html", <<>>)
            /\ UNCHANGED inflight
       ELSE LET full_name == The(ProfileOf(The(session[c]))).full_name
                url == Strip(rawUrl)
            IN  /\ inflight' = [inflight EXCEPT ![c] =
                                  [op |-> "generate", uid |-> The(session[c]), url |-> url,
                                   pdf_name |-> FileName(full_name, url, ".pdf"),
                                   docx_name |-> FileName(full_name, url, ".docx"),
                                   stage |-> "rendered", dir |-> None]]
                /\ UNCHANGED resp
    /\ UNCHANGED <<now, users, session, hist, store>>

Mkdtemp(c, dir) ==
    /\ inflight[c].op = "generate" /\ inflight[c].stage = "rendered"
    /\ Fresh(dir)
    /\ fs' = [d \in DOMAIN fs \cup {dir} |-> IF d \in DOMAIN fs THEN fs[d] ELSE {}]
    /\ inflight' = [inflight EXCEPT ![c].stage = "made", ![c].dir = Some(dir)]
    /\ UNCHANGED <<now, users, session, req, resp, hist, profiles, resumes>>

(* the path a request in progress writes its file of this name to *)
PathOf(c, name) == [dir |-> The(inflight[c].dir), name |-> name]

(* open(path, "wb") and write: the file is there afterwards, whatever was there *)
WriteFile(c, stage, name, next) ==
    /\ inflight[c].op = "generate" /\ inflight[c].stage = stage
    /\ The(inflight[c].dir) \in DOMAIN fs
    /\ fs' = [fs EXCEPT ![The(inflight[c].dir)] = @ \cup {name}]
    /\ inflight' = [inflight EXCEPT ![c].stage = next]
    /\ UNCHANGED <<now, users, session, req, resp, hist, profiles, resumes>>

WritePdf(c) == WriteFile(c, "made", inflight[c].pdf_name, "pdf")

WriteDocx(c) == WriteFile(c, "pdf", inflight[c].docx_name, "docx")

(* the row is added as soon as the directory is made, before the writes *)
CommitOnceMade(c) == inflight[c].stage \in {"made", "pdf", "docx"}

(* lines 267-283: sess.add(row) comes after both with-blocks have closed the files *)
ReadyToCommit(c) == inflight[c].stage = "docx"

TailorCommit(c) ==
    /\ inflight[c].op = "generate" /\ ReadyToCommit(c)
    /\ LET row == [id |-> NextId(resumes), user_id |-> inflight[c].uid,
                   job_url |-> inflight[c].url, created_at |-> now,
                   pdf_path |-> PathOf(c, inflight[c].pdf_name),
                   docx_path |-> PathOf(c, inflight[c].docx_name),
                   pdf_name |-> inflight[c].pdf_name, docx_name |-> inflight[c].docx_name,
                   coverage_json |-> Coverage]
       IN  /\ resumes' = resumes \cup {row}
           /\ resp' = Response("generate", "ok", "", "redirect:result", <<row.id>>)
    /\ inflight' = [inflight EXCEPT ![c] = Idle]
    /\ UNCHANGED <<now, users, session, req, hist, profiles, fs>>

(* GET /tailor *)
TailorGet(c) ==
    /\ req' = Request("list_recent", <<c>>)
    /\ IF session[c] = None THEN resp' = Unauthorized("list_recent")
       ELSE IF ~Usable(ProfileOf(The(session[c]))) THEN resp' = ProfileIncomplete("list_recent")
       ELSE \E recent \in RecentLists(The(session[c])) :
                resp' = Response("list_recent", "ok", "", "tailor.html", recent)
    /\ UNCHANGED <<now, inflight, users, session, hist, store>>

(* ------------------------------- delete -------------------------------- *)
NotFound(op) == Response(op, "not-found", "", "404", <<>>)

(* sess.get(GeneratedResume, id) *)
ResumeById(id) == {r \in resumes : r.id = id}

(* os.remove(p) when it exists; failed: os.remove raises and the error is passed over *)
RemoveFile(files, path, failed) ==
    IF path.dir \in DOMAIN files /\ path.name \in files[path.dir] /\ ~failed
    THEN [files EXCEPT ![path.dir] = @ \ {path.name}]
    ELSE files

(* os.rmdir(d) when d is an empty directory; failed: it raises and the error is passed over *)
RemoveDir(files, dir, failed) ==
    IF dir \in DOMAIN files /\ files[dir] = {} /\ ~failed
    THEN [d \in DOMAIN files \ {dir} |-> files[d]]
    ELSE files

(* the record is deleted only when the clean-up raised nothing *)
RowsAfterCleanDelete(row, failPdf, failDocx, failDir) ==
    IF failPdf \/ failDocx \/ failDir THEN resumes ELSE resumes \ {row}

(* lines 331-333: sess.delete(row); sess.commit() *)
RowsAfterDelete(row, failPdf, failDocx, failDir) == resumes \ {row}

(* only a missing record is refused *)
MissingOnly(found, uid) == found = {}

(* lines 315 and 342: not row or row.user_id != current_user.id *)
MissingOrForeign(found, uid) == found = {} \/ The(found).user_id # uid

DeleteResume(c, id, failPdf, failDocx, failDir) ==
    /\ req' = Request("delete", <<c, id>>)
    /\ IF session[c] = None
       THEN /\ resp' = Unauthorized("delete")
            /\ UNCHANGED <<now, inflight, users, session, hist, store>>
       ELSE LET found == ResumeById(id)
            IN  IF MissingOrForeign(found, The(session[c]))
                THEN /\ resp' = NotFound("delete")
                     /\ UNCHANGED <<now, inflight, users, session, hist, store>>
                ELSE LET row == The(found)
                         afterPdf == RemoveFile(fs, row.pdf_path, failPdf)
                         afterDocx == RemoveFile(afterPdf, row.docx_path, failDocx)
                     IN  /\ fs' = RemoveDir(afterDocx, row.pdf_path.dir, failDir)
                         /\ resumes' = RowsAfterDelete(row, failPdf, failDocx, failDir)
                         /\ resp' = Response("delete", "ok", "Deleted resume", "redirect:tailor", <<>>)
                         /\ UNCHANGED <<now, inflight, users, session, hist, profiles>>

(* ------------------------------ download ------------------------------- *)
Download(c, id, kind) ==
    /\ req' = Request("get_for_download", <<c, id, kind>>)
    /\ IF session[c] = None THEN resp' = Unauthorized("get_for_download")
       ELSE LET found == ResumeById(id)
            IN  IF MissingOrForeign(found, The(session[c]))
                THEN resp' = NotFound("get_for_download")
                ELSE IF kind = "pdf"
                THEN resp' = Response("get_for_download",
                                      IF Exists(The(found).pdf_path) THEN "ok" ELSE "error",
                                      "", "attachment",
                                      <<The(found).pdf_path, The(found).pdf_name>>)
                ELSE IF kind = "docx"
                THEN resp' = Response("get_for_download",
                                      IF Exists(The(found).docx_path) THEN "ok" ELSE "error",
                                      "", "attachment",
                                      <<The(found).docx_path, The(found).docx_name>>)
                ELSE resp' = NotFound("get_for_download")
    /\ UNCHANGED <<now, inflight, users, session, hist, store>>

(* ----------------------- the scratch area's owner ---------------------- *)
(* the files live under the system's temporary directory, which the       *)
(* system may clean: delete_resume tests os.path.exists for that reason   *)
Reap(dir, name) ==
    /\ dir \in DOMAIN fs
    /\ name \in fs[dir]
    /\ fs' = [fs EXCEPT ![dir] = @ \ {name}]
    /\ UNCHANGED <<now, inflight, users, session, req, resp, hist, profiles, resumes>>

(* ------------------------------- clock -------------------------------- *)
Tick(t) ==
    /\ t > now
    /\ now' = t
    /\ UNCHANGED <<users, session, req, resp, hist, store, inflight>>

(* ------------------------- the specifications ------------------------- *)
OneClient == {"c1"}

(* sign-in, verification and the clock, with two accounts and two codes *)
NextAuth ==
    \/ \E raw \in RawEmails, n \in CodeNumbers : Signin(raw, n)
    \/ \E c \in OneClient, raw \in RawEmails, code \in SubmittedCodes : Verify(c, raw, code)
    \/ \E c \in OneClient : Logout(c)
    \/ \E t \in Instants : Tick(t)

SpecAuth == Init /\ [][NextAuth]_vars

(* one browser and one account through the whole life of a resume *)
OneEmail == { <<"A", "@", "x">> }
OneNumber == {7}
ProfileForms ==
    { [full_name |-> Some(<<"J", " ", "D">>), city |-> Some(<<" ", "c">>),
       email |-> Some(<<"j", "@", "x">>), phone |-> None, web |-> Some(<<"w">>),
       about |-> None, gemini_api_key |-> None],
      [full_name |-> Some(<<"J", " ", "D">>), city |-> None, email |-> None, phone |-> None,
       web |-> None, about |-> None, gemini_api_key |-> None],
      [full_name |-> Some(<<" ">>), city |-> None, email |-> Some(<<"j", "@", "x">>),
       phone |-> None, web |-> None, about |-> None, gemini_api_key |-> None],
      [full_name |-> Some(<<"K">>), city |-> None, email |-> Some(<<"k", "@", "x">>),
       phone |-> Some(<<"5", " ">>), web |-> None, about |-> Some(<<"a">>),
       gemini_api_key |-> None] }
JobUrls == { <<"https://", "boards.example.com", "/job/42", " ">>, <<" ">> }
TmpDirs == 1..MaxTmpDirs
ResumeIds == 1..(MaxTmpDirs + 1)
Kinds == {"pdf", "docx", "txt"}
FileNames == UNION {fs[d] : d \in DOMAIN fs}

Next ==
    \/ \E raw \in OneEmail, n \in OneNumber : Signin(raw, n)
    \/ \E c \in OneClient, raw \in OneEmail, code \in {FormatCode(n) : n \in OneNumber} :
            Verify(c, raw, code)
    \/ \E c \in OneClient : Logout(c)
    \/ \E c \in OneClient, f \in ProfileForms : ProfilePost(c, f)
    \/ \E c \in OneClient : ProfileGet(c)
    \/ \E c \in OneClient, url \in JobUrls, rendered \in BOOLEAN, dir \in TmpDirs :
            TailorPost(c, url, rendered, dir)
    \/ \E c \in OneClient : TailorGet(c)
    \/ \E c \in OneClient, id \in ResumeIds, failPdf, failDocx, failDir \in BOOLEAN :
            DeleteResume(c, id, failPdf, failDocx, failDir)
    \/ \E c \in OneClient, id \in ResumeIds, kind \in Kinds : Download(c, id, kind)
    \/ \E dir \in TmpDirs, name \in FileNames : Reap(dir, name)

Spec == Init /\ [][Next]_vars

(* two accounts, each in a browser of its own: c1 signs in as A@x, c2 as b@x *)
EmailOf(c) == IF c = "c1" THEN <<"A", "@", "x">> ELSE <<"b", "@", "x">>
TwoForms == { [full_name |-> Some(<<"J", " ", "D">>), city |-> Some(<<" ", "c">>),
               email |-> Some(<<"j", "@", "x">>), phone |-> None, web |-> Some(<<"w">>),
               about |-> None, gemini_api_key |-> None] }
TwoUrls == { <<"https://", "boards.example.com", "/job/42", " ">> }
(* a scratch directory for each browser, and one record id more than that *)
TwoDirs == 1..Cardinality(Clients)
TwoIds == 1..(Cardinality(Clients) + 1)
TwoKinds == {"pdf", "docx", "txt"}

(* mkdtemp may return any unused name; the lowest one stands for them all *)
LowestFree(dir) == \A d \in 1..(dir - 1) : d \in DOMAIN fs

(* each account asks for its code once *)
NextTwo ==
    \/ \E c \in Clients, n \in OneNumber :
            UserByEmail(Lower(Strip(EmailOf(c)))) = {} /\ Signin(EmailOf(c), n)
    \/ \E c \in Clients, code \in {FormatCode(n) : n \in OneNumber} : Verify(c, EmailOf(c), code)
    \/ \E c \in Clients, f \in TwoForms : ProfilePost(c, f)
    \/ \E c \in Clients, url \in TwoUrls, dir \in TwoDirs :
            LowestFree(dir) /\ TailorPost(c, url, TRUE, dir)
    \/ \E c \in Clients, id \in TwoIds : DeleteResume(c, id, FALSE, FALSE, FALSE)
    \/ \E c \in Clients, id \in TwoIds, kind \in TwoKinds : Download(c, id, kind)

SpecTwo == Init /\ [][NextTwo]_vars

(* the account in browser c1 generates more resumes than the list shows while *)
(* the clock moves, at most two of them in the same instant; the account in   *)
(* browser c2 makes its one resume before the clock moves                      *)
ListDirs == 1..(ListLimit + 2)
ListIds == {1, ListLimit}
ListInstants == {1, CodeTtl, CodeTtl + 1}
FewNow == \A r1, r2 \in resumes : (r1.created_at = now /\ r2.created_at = now) => r1 = r2
Early(c) == c \in OneClient \/ (now = 0 /\ resumes = {})

NextList ==
    \/ \E c \in Clients, n \in OneNumber :
            /\ Early(c)
            /\ UserByEmail(Lower(Strip(EmailOf(c)))) = {}
            /\ Signin(EmailOf(c), n)
    \/ \E c \in Clients, code \in {FormatCode(n) : n \in OneNumber} :
            Early(c) /\ Verify(c, EmailOf(c), code)
    \/ \E c \in Clients, f \in TwoForms : Early(c) /\ ProfilePost(c, f)
    \/ \E c \in Clients, url \in TwoUrls, dir \in ListDirs :
            Early(c) /\ FewNow /\ LowestFree(dir) /\ TailorPost(c, url, TRUE, dir)
    \/ \E c \in Clients : TailorGet(c)
    \/ \E c \in OneClient, id \in ListIds : DeleteResume(c, id, FALSE, FALSE, FALSE)
    \/ \E t \in ListInstants : Tick(t)

SpecList == Init /\ [][NextList]_vars

(* one visitor walks through the application: a@x.com signs in, verifies,    *)
(* saves a profile that is only a name or a name and an email, generates for *)
(* one posting and looks at the list                                         *)
JaneDoe == <<"J", "a", "n", "e", " ", "D", "o", "e">>
WalkForms ==
    { [full_name |-> Some(JaneDoe), city |-> None, email |-> None, phone |-> None,
       web |-> None, about |-> None, gemini_api_key |-> None],
      [full_name |-> Some(JaneDoe), city |-> None, email |-> Some(WalkEmail), phone |-> None,
       web |-> None, about |-> None, gemini_api_key |-> None] }
WalkUrl == <<"https://", "boards.example.com", "/job/42">>

NextWalk ==
    \/ \E n \in OneNumber : Signin(WalkEmail, n)
    \/ \E c \in OneClient, code \in {FormatCode(n) : n \in OneNumber} : Verify(c, WalkEmail, code)
    \/ \E c \in OneClient, f \in WalkForms : ProfilePost(c, f)
    \/ \E c \in OneClient, rendered \in BOOLEAN, dir \in TmpDirs :
            TailorPost(c, WalkUrl, rendered, dir)
    \/ \E c \in OneClient : TailorGet(c)
    \/ \E c \in OneClient, id \in ResumeIds : DeleteResume(c, id, FALSE, FALSE, FALSE)
    \/ \E c \in OneClient, id \in ResumeIds, kind \in Kinds : Download(c, id, kind)
    \/ \E c \in OneClient : ProfileGet(c)
    \/ \E c \in OneClient : Logout(c)

SpecWalk == Init /\ [][NextWalk]_vars

(* two browsers signed in to the same account save its profile at the same   *)
(* time: each request reads, and commits in a later step                     *)
RaceForms ==
    { [full_name |-> Some(<<"J", " ", "D">>), city |-> Some(<<" ", "c">>),
       email |-> Some(<<"j", "@", "x">>), phone |-> None, web |-> Some(<<"w">>),
       about |-> None, gemini_api_key |-> None],
      [full_name |-> Some(<<"K">>), city |-> None, email |-> Some(<<"k", "@", "x">>),
       phone |-> Some(<<"5", " ">>), web |-> None, about |-> Some(<<"a">>),
       gemini_api_key |-> None],
      [full_name |-> Some(<<" ">>), city |-> None, email |-> Some(<<"j", "@", "x">>),
       phone |-> None, web |-> None, about |-> None, gemini_api_key |-> None] }

NextProfileRace ==
    \/ \E raw \in OneEmail, n \in OneNumber : Signin(raw, n)
    \/ \E c \in Clients, raw \in OneEmail, code \in {FormatCode(n) : n \in OneNumber} :
            Verify(c, raw, code)
    \/ \E c \in Clients : Logout(c)
    \/ \E c \in Clients, f \in RaceForms : ProfileBegin(c, f)
    \/ \E c \in Clients : ProfileCommit(c)
    \/ \E c \in Clients : ProfileGet(c)

SpecProfileRace == Init /\ [][NextProfileRace]_vars

(* two browsers, signed in to the same account or to two accounts with the   *)
(* same name in their profiles, generate for the same posting at the same    *)
(* time, so that the file names are the same                                 *)
RaceEmails == { <<"A", "@", "x">>, <<"b", "@", "x">> }
RaceDirs == 1..Cardinality(Clients)
RaceIds == {1}

(* the accounts sign in and save their profiles before the first resume is asked for *)
SettingUp == fs = <<>> /\ resumes = {} /\ \A c \in Clients : inflight[c] = Idle

NextTailorRace ==
    \/ \E raw \in RaceEmails, n \in OneNumber : SettingUp /\ Signin(raw, n)
    \/ \E c \in Clients, raw \in RaceEmails, code \in {FormatCode(n) : n \in OneNumber} :
            SettingUp /\ (c \in OneClient => raw \in OneEmail) /\ Verify(c, raw, code)
    \/ \E c \in Clients, f \in TwoForms : SettingUp /\ ProfilePost(c, f)
    \/ \E c \in Clients, url \in TwoUrls, rendered \in BOOLEAN : TailorBegin(c, url, rendered)
    \/ \E c \in Clients, dir \in RaceDirs : LowestFree(dir) /\ Mkdtemp(c, dir)
    \/ \E c \in Clients : WritePdf(c)
    \/ \E c \in Clients : WriteDocx(c)
    \/ \E c \in Clients : TailorCommit(c)
    \/ \E c \in Clients, id \in RaceIds : DeleteResume(c, id, FALSE, FALSE, FALSE)

SpecTailorRace == Init /\ [][NextTailorRace]_vars

(* two browsers verify for the same account at the same time: each request  *)
(* reads, and commits in a later step                                        *)
NextVerifyRace ==
    \/ \E raw \in OneEmail, n \in CodeNumbers : Signin(raw, n)
    \/ \E c \in Clients, raw \in OneEmail, code \in SubmittedCodes : VerifyBegin(c, raw, code)
    \/ \E c \in Clients : VerifyCommit(c)
    \/ \E c \in Clients : Logout(c)
    \/ \E t \in Instants : Tick(t)

SpecVerifyRace == Init /\ [][NextVerifyRace]_vars

(* one browser generates step by step while the other, signed in to the same *)
(* account, downloads and deletes, and the system cleans its temporary       *)
(* directory                                                                 *)
VisibleKinds == {"pdf", "docx"}

NextVisible ==
    \/ \E raw \in OneEmail, n \in OneNumber : SettingUp /\ Signin(raw, n)
    \/ \E c \in Clients, raw \in OneEmail, code \in {FormatCode(n) : n \in OneNumber} :
            SettingUp /\ Verify(c, raw, code)
    \/ \E c \in OneClient, f \in TwoForms : SettingUp /\ ProfilePost(c, f)
    \/ \E c \in OneClient, url \in TwoUrls : TailorBegin(c, url, TRUE)
    \/ \E c \in OneClient, dir \in RaceDirs : LowestFree(dir) /\ Mkdtemp(c, dir)
    \/ \E c \in OneClient : WritePdf(c)
    \/ \E c \in OneClient : WriteDocx(c)
    \/ \E c \in OneClient : TailorCommit(c)
    \/ \E c \in Clients \ OneClient, id \in RaceIds, kind \in VisibleKinds : Download(c, id, kind)
    \/ \E c \in Clients \ OneClient, id \in RaceIds, failed \in BOOLEAN :
            DeleteResume(c, id, failed, failed, failed)
    \/ \E dir \in RaceDirs, name \in FileNames : Reap(dir, name)

SpecVisible == Init /\ [][NextVisible]_vars

(* ============================ properties ============================== *)
(* the last request was a well-formed verify_code(email, code) *)
VerifyRequested == req.op = "verify" /\ VerifyFormValid(req.args[2], req.args[3])
VEmail == Lower(Strip(req.args[2]))
VCode == Strip(req.args[3])
VClient == req.args[1]

(* a step that handles a well-formed verify_code(raw, code) *)
VerifyStep(c, raw, code) == Verify(c, raw, code) /\ VerifyFormValid(raw, code)

(* C1, as stated: after two request_code(e) in a row, the first issuing c1,   *)
(* verify_code(e, c1) fails with invalid-credential.                          *)
C1_SecondRequestInvalidatesFirst ==
    (VerifyRequested /\ hist[VEmail].prev = Some(VCode))
        => resp.status = "invalid-credential"

(* C1, amended: after two request_code(e) in a row issuing c1 and then a      *)
(* different code c2, verify_code(e, c1) fails with invalid-credential.       *)
C1_DifferentSecondCodeInvalidatesFirst ==
    (VerifyRequested /\ hist[VEmail].prev = Some(VCode) /\ hist[VEmail].last # Some(VCode))
        => resp = VerifyFailure

(* the first code, not expired when it was superseded, was tried and refused *)
C1_Witness ==
    /\ VerifyRequested
    /\ hist[VEmail].prev = Some(VCode)
    /\ hist[VEmail].last # Some(VCode)
    /\ ~hist[VEmail].used
    /\ \E u \in UserByEmail(VEmail) :
          users[u].verify_code = hist[VEmail].last /\ The(users[u].verify_expiry) >= now
    /\ resp = VerifyFailure

(* C2: once verify_code(e, c) has succeeded, every further verify_code(e, c)  *)
(* before the next request_code(e) fails with invalid-credential.             *)
C2_CodeIsSingleUse ==
    [][\A c \in Clients, raw \in RawEmails, code \in SubmittedCodes :
          (/\ VerifyStep(c, raw, code)
           /\ hist[Lower(Strip(raw))].used
           /\ hist[Lower(Strip(raw))].last = Some(Strip(code)))
              => resp' = VerifyFailure]_vars

(* the code that signed the user in was tried again, in time, and refused *)
C2_Witness ==
    /\ VerifyRequested
    /\ hist[VEmail].used
    /\ hist[VEmail].last = Some(VCode)
    /\ now = 0
    /\ resp = VerifyFailure

(* C3: the expiry is the issue time plus 10 minutes, and verify_code with the *)
(* stored code succeeds exactly when now <= expiry.                           *)
C3_AcceptedUntilExpiry ==
    [][/\ \A raw \in RawEmails, n \in CodeNumbers :
            (Signin(raw, n) /\ SigninFormValid(raw))
                => \A u \in UserIds' :
                      users'[u].email = Lower(Strip(raw))
                          => users'[u].verify_expiry = Some(now + CodeTtl)
       /\ \A c \in Clients, raw \in RawEmails, code \in SubmittedCodes :
            (/\ VerifyStep(c, raw, code)
             /\ \E u \in UserByEmail(Lower(Strip(raw))) :
                    users[u].verify_code = Some(Strip(code)))
                => \A u \in UserByEmail(Lower(Strip(raw))) :
                      /\ The(users[u].verify_expiry) >= now => resp'.status = "ok"
                      /\ The(users[u].verify_expiry) < now => resp' = VerifyFailure]_vars

(* the stored code was submitted one minute after its expiry and refused *)
C3_Witness ==
    /\ VerifyRequested
    /\ \E u \in UserByEmail(VEmail) :
          /\ users[u].verify_code = Some(VCode)
          /\ The(users[u].verify_expiry) + 1 = now
    /\ resp = VerifyFailure

(* C4: a successful verify_code(email, code) leaves the account of the        *)
(* normalized email verified, with no code and no expiry, and the session of  *)
(* the caller resolves to that account and no other.                          *)
C4_SuccessBindsSession ==
    (VerifyRequested /\ resp.status = "ok")
        => /\ Cardinality(UserByEmail(VEmail)) = 1
           /\ \A u \in UserByEmail(VEmail) :
                 /\ users[u].verified = 1
                 /\ users[u].verify_code = None
                 /\ users[u].verify_expiry = None
                 /\ session[VClient] = Some(u)
                 /\ CurrentAccount(VClient) = Some(users[u])
           /\ \A u \in UserIds : session[VClient] = Some(u) => users[u].email = VEmail

(* the second of two accounts signed in *)
C4_Witness ==
    /\ VerifyRequested
    /\ resp.status = "ok"
    /\ Len(users) = 2
    /\ UserByEmail(VEmail) = {2}
    /\ session[VClient] = Some(2)

(* C5: a verify_code that fails changes no account, creates none, and         *)
(* establishes no session; profiles, records and files are untouched.         *)
C5_FailureChangesNothing ==
    [][\A c \in Clients, raw \in RawEmails, code \in SubmittedCodes :
          (Verify(c, raw, code) /\ resp'.status # "ok")
              => UNCHANGED <<users, session, profiles, resumes, fs>>]_vars

(* a wrong code was refused while another code was pending and in time *)
C5_Witness ==
    /\ VerifyRequested
    /\ resp = VerifyFailure
    /\ \E u \in UserByEmail(VEmail) :
          /\ users[u].verify_code # None
          /\ users[u].verify_code # Some(VCode)
          /\ The(users[u].verify_expiry) >= now
          /\ users[u].verified = 0
    /\ session[VClient] = None

(* why the last verify_code, if it failed, did *)
FailureReason ==
    IF UserByEmail(VEmail) = {} THEN "unknown-email"
    ELSE LET u == The(UserByEmail(VEmail))
         IN  IF users[u].verify_code = None THEN "no-pending-code"
             ELSE IF users[u].verify_code # Some(VCode) THEN "wrong-code"
             ELSE "expired"

(* C6: whatever the reason a verify_code fails for (unknown email, wrong      *)
(* code, no pending code, expired code), the caller gets the same response.   *)
C6_FailureResponseIsUniform ==
    (VerifyRequested /\ resp.status # "ok")
        => /\ FailureReason \in {"unknown-email", "no-pending-code", "wrong-code", "expired"}
           /\ resp = VerifyFailure

(* an email with no account was refused like any other failure *)
C6_Witness ==
    /\ VerifyRequested
    /\ resp = VerifyFailure
    /\ FailureReason = "unknown-email"
    /\ users # <<>>

(* a step that handles one of the operations behind login_required *)
GatedStep(c) ==
    \/ \E f \in ProfileForms : ProfilePost(c, f)
    \/ ProfileGet(c)
    \/ \E url \in JobUrls, rendered \in BOOLEAN, dir \in TmpDirs : TailorPost(c, url, rendered, dir)
    \/ TailorGet(c)
    \/ \E id \in ResumeIds, failPdf, failDocx, failDir \in BOOLEAN :
          DeleteResume(c, id, failPdf, failDocx, failDir)
    \/ \E id \in ResumeIds, kind \in Kinds : Download(c, id, kind)

(* C7: get_profile, save_profile, generate, list_recent, get_for_download and *)
(* delete are refused for a caller without a session, and the refused request *)
(* changes no profile, no record and no file.                                 *)
C7_NoSessionNoAccess ==
    [][\A c \in Clients :
          (session[c] = None /\ GatedStep(c))
              => /\ resp'.status = "unauthorized"
                 /\ UNCHANGED <<users, session, profiles, resumes, fs>>]_vars

(* after signing out, a delete of an existing record was refused *)
C7_Witness ==
    /\ req.op = "delete"
    /\ resp.status = "unauthorized"
    /\ session[req.args[1]] = None
    /\ \E u \in UserIds : users[u].verified = 1
    /\ ResumeById(req.args[2]) # {}
    /\ \A r \in resumes : Exists(r.pdf_path) /\ Exists(r.docx_path)

(* the account has no profile with a name that is not blank *)
NoNamedProfile(uid) == \A p \in profiles : p.user_id = uid => Strip(p.full_name) = <<>>

(* C8: generate by a signed-in account with no profile, or with a blank       *)
(* full_name, fails with profile-incomplete whatever the URL and whether or   *)
(* not the renderer would succeed, and creates no file and no record.         *)
C8_ProfileRequired ==
    [][\A c \in Clients, url \in JobUrls, rendered \in BOOLEAN, dir \in TmpDirs :
          (/\ TailorPost(c, url, rendered, dir)
           /\ session[c] # None
           /\ NoNamedProfile(The(session[c])))
              => /\ resp'.status = "profile-incomplete"
                 /\ UNCHANGED <<profiles, resumes, fs>>]_vars

(* a signed-in account without a profile asked for a resume with a good URL *)
C8_Witness ==
    /\ req.op = "generate"
    /\ Strip(req.args[2]) # <<>>
    /\ session[req.args[1]] # None
    /\ profiles = {}
    /\ resp.status = "profile-incomplete"
    /\ resumes = {} /\ fs = <<>>

(* C9: when the renderer fails, generate answers render-failed and leaves     *)
(* the records, the files and the scratch directories as they were.           *)
C9_RenderFailureLeavesNoTrace ==
    [][\A c \in Clients, url \in JobUrls, dir \in TmpDirs :
          (/\ TailorPost(c, url, FALSE, dir)
           /\ session[c] # None
           /\ ~NoNamedProfile(The(session[c]))
           /\ Strip(url) # <<>>)
              => /\ resp'.status = "render-failed"
                 /\ UNCHANGED <<profiles, resumes, fs>>]_vars

(* the renderer failed for an account that could generate *)
C9_Witness ==
    /\ req.op = "generate"
    /\ resp.status = "render-failed"
    /\ session[req.args[1]] # None
    /\ ~NoNamedProfile(The(session[req.args[1]]))
    /\ resumes = {} /\ fs = <<>>

(* C10: delete by the owner removes the record and reports success, whether   *)
(* the files are there or already gone, and whether or not removing a file or *)
(* the directory raises.                                                      *)
C10_DeleteAlwaysRemovesRecord ==
    [][\A c \in Clients, id \in ResumeIds, failPdf, failDocx, failDir \in BOOLEAN :
          (/\ DeleteResume(c, id, failPdf, failDocx, failDir)
           /\ session[c] # None
           /\ \E r \in resumes : r.id = id /\ r.user_id = The(session[c]))
              => /\ resp'.status = "ok"
                 /\ \A r \in resumes' : r.id # id]_vars

(* the record is gone although one file was already missing and the other could not be removed *)
C10_Witness ==
    /\ req.op = "delete"
    /\ resp.status = "ok"
    /\ resumes = {}
    /\ \E d \in DOMAIN fs : Cardinality(fs[d]) = 1

(* the record with this id that the account owns, if there is one *)
OwnRecord(uid, id) == {r \in resumes : r.id = id /\ r.user_id = uid}

(* the record with this id exists and belongs to someone else *)
ForeignRecord(uid, id) == {r \in resumes : r.id = id /\ r.user_id # uid}

(* C11: get_for_download by a signed-in account is not-found unless a record   *)
(* with that id exists, the account owns it and the kind is pdf or docx (so it *)
(* is not-found for another account's record); when it succeeds it returns    *)
(* the stored path and file name of that kind of that record.                  *)
C11_DownloadOnlyOwnRecord ==
    [][\A c \in Clients, id \in TwoIds, kind \in TwoKinds :
          (Download(c, id, kind) /\ session[c] # None)
              => LET own == OwnRecord(The(session[c]), id)
                 IN  /\ (own = {} \/ kind \notin {"pdf", "docx"}) => resp'.status = "not-found"
                     /\ resp'.status = "ok"
                          => /\ own # {}
                             /\ kind = "pdf"
                                 => resp'.body = <<The(own).pdf_path, The(own).pdf_name>>
                             /\ kind = "docx"
                                 => resp'.body = <<The(own).docx_path, The(own).docx_name>>]_vars

(* a download of another account's record, whose file is there, was not-found *)
C11_Witness ==
    /\ req.op = "get_for_download"
    /\ req.args[3] = "pdf"
    /\ session[req.args[1]] # None
    /\ resp.status = "not-found"
    /\ \E r \in ForeignRecord(The(session[req.args[1]]), req.args[2]) : Exists(r.pdf_path)

(* C12: delete by a signed-in account of a record that is absent or owned by   *)
(* another account is not-found and changes no record and no file.            *)
C12_DeleteOfForeignChangesNothing ==
    [][\A c \in Clients, id \in TwoIds, failPdf, failDocx, failDir \in BOOLEAN :
          (/\ DeleteResume(c, id, failPdf, failDocx, failDir)
           /\ session[c] # None
           /\ OwnRecord(The(session[c]), id) = {})
              => /\ resp'.status = "not-found"
                 /\ UNCHANGED <<resumes, fs>>]_vars

(* a delete of another account's record was not-found; the record and both of *)
(* its files are still there                                                   *)
C12_Witness ==
    /\ req.op = "delete"
    /\ session[req.args[1]] # None
    /\ resp.status = "not-found"
    /\ \E r \in ForeignRecord(The(session[req.args[1]]), req.args[2]) :
          Exists(r.pdf_path) /\ Exists(r.docx_path)

(* a step in which browser c saves a profile, generates or deletes *)
WritingStep(c) ==
    \/ \E f \in TwoForms : ProfilePost(c, f)
    \/ \E url \in TwoUrls, dir \in TwoDirs : TailorPost(c, url, TRUE, dir)
    \/ \E id \in TwoIds, failPdf, failDocx, failDir \in BOOLEAN :
          DeleteResume(c, id, failPdf, failDocx, failDir)

(* what belongs to account u: its row, its profile, its records and, for each *)
(* of the records' two paths, whether the file is there                       *)
Belongings(u) ==
    <<users[u], ProfileOf(u), Owned(u),
      {<<r.id, Exists(r.pdf_path), Exists(r.docx_path)>> : r \in Owned(u)}>>

(* C20: save_profile, generate and delete under one account's session, in any *)
(* order with the other account's requests, leave every other account's       *)
(* profile, records, files, verified flag, code and expiry as they were.       *)
C20_OtherAccountUntouched ==
    [][\A c \in Clients :
          (session[c] # None /\ WritingStep(c))
              => \A u \in UserIds \ {The(session[c])} : Belongings(u)' = Belongings(u)]_vars

(* one account has just deleted its own record while the other account, with  *)
(* a profile, a record and both files, is waiting for its next code            *)
C20_Witness ==
    /\ req.op = "delete"
    /\ resp.status = "ok"
    /\ session[req.args[1]] # None
    /\ \E u \in UserIds \ {The(session[req.args[1]])} :
          /\ ProfileOf(u) # None
          /\ \E r \in Owned(u) : Exists(r.pdf_path) /\ Exists(r.docx_path)

(* the columns of a stored profile that get_profile shows *)
Shown(p) ==
    [full_name |-> p.full_name, city |-> p.city, email |-> p.email, phone |-> p.phone,
     linkedin |-> p.linkedin, github |-> p.github, about |-> p.about,
     gemini_api_key |-> p.gemini_api_key]

(* C13, as stated: on an account that has a Profile, a successful save_profile *)
(* leaves that same Profile holding the submitted, trimmed values, which       *)
(* get_profile then returns, and adds no second Profile.                      *)
C13_UpdateStoresSubmitted ==
    [][\A c \in Clients, f \in ProfileForms :
          (/\ ProfilePost(c, f)
           /\ session[c] # None
           /\ ProfileOf(The(session[c])) # None
           /\ resp'.status = "ok")
              => /\ Cardinality(profiles') = Cardinality(profiles)
                 /\ \E p \in profiles' :
                       /\ p.id = The(ProfileOf(The(session[c]))).id
                       /\ p.user_id = The(session[c])
                       /\ Shown(p) = ProfileData(f)]_vars

(* a submitted form with a full_name that is not blank, every field within its *)
(* cap, and an email that is left empty or is an address                      *)
NamedWithinCaps(f) ==
    /\ Strip(OrEmpty(f.full_name)) # <<>>
    /\ WithinLength(f.full_name, NameCap) /\ WithinLength(f.city, NameCap)
    /\ WithinLength(f.email, NameCap) /\ WithinLength(f.phone, PhoneCap)
    /\ WithinLength(f.web, NameCap) /\ WithinLength(f.about, AboutCap)
    /\ WithinLength(f.gemini_api_key, NameCap)
    /\ (Strip(OrEmpty(f.email)) = <<>> \/ IsEmail(OrEmpty(f.email)))

(* C14, as stated: save_profile by a signed-in account succeeds for every     *)
(* input whose full_name is not blank and whose fields are within the caps,   *)
(* also when every other field is empty or omitted.                           *)
C14_OnlyNameIsRequired ==
    [][\A c \in Clients, f \in ProfileForms :
          (ProfilePost(c, f) /\ session[c] # None /\ NamedWithinCaps(f))
              => resp'.status = "ok"]_vars

(* C15: in every state, after any requests for codes and any verifications,   *)
(* successful or failed, each account's stored code and its expiry are both   *)
(* set or both null, an account just created by request_code included.        *)
C15_CodeAndExpiryTogether ==
    \A u \in UserIds : (users[u].verify_code = None) <=> (users[u].verify_expiry = None)

(* a failed verification has just left one account, not yet verified, with    *)
(* its code and expiry set, next to an account that used its code and has     *)
(* neither                                                                     *)
C15_Witness ==
    /\ req.op = "verify"
    /\ resp.status = "invalid-credential"
    /\ \E u \in UserIds :
          users[u].verified = 0 /\ users[u].verify_code # None /\ users[u].verify_expiry # None
    /\ \E u \in UserIds :
          users[u].verified = 1 /\ users[u].verify_code = None /\ users[u].verify_expiry = None

(* the places of a list *)
Places(list) == 1..Len(list)

(* C18: list_recent of a signed-in account returns records, each once, that   *)
(* the account owns and that are stored (none that was deleted), newest       *)
(* first, at most 5 of them and as many as there are up to 5; every record of *)
(* the account left out is no newer than any record returned.                 *)
C18_RecentAreOwnNewestFive ==
    [][\A c \in Clients :
          (TailorGet(c) /\ session[c] # None /\ resp'.status = "ok")
              => LET own == Owned(The(session[c]))
                     list == resp'.body
                 IN  /\ \A i \in Places(list) : list[i] \in own
                     /\ \A i, j \in Places(list) :
                           i < j => list[i] # list[j] /\ list[i].created_at >= list[j].created_at
                     /\ Len(list) = Min(ListLimit, Cardinality(own))
                     /\ \A r \in own :
                           (\A i \in Places(list) : list[i] # r)
                               => \A i \in Places(list) : list[i].created_at >= r.created_at]_vars

(* the list of an account with more than 5 records, made at different times,  *)
(* one of its earlier records deleted, next to another account's record       *)
C18_Witness ==
    /\ req.op = "list_recent"
    /\ resp.status = "ok"
    /\ session[req.args[1]] # None
    /\ Len(resp.body) = ListLimit
    /\ Cardinality(Owned(The(session[req.args[1]]))) > ListLimit
    /\ resp.body[1].created_at > resp.body[ListLimit].created_at
    /\ \E r \in resumes : r.user_id # The(session[req.args[1]])
    /\ \E r \in resumes : \E k \in 1..r.id : ResumeById(k) = {}

(* the file name the walk expects, with its extension *)
WalkFileName(ext) ==
    <<"Resume_", "J", "a", "n", "e", "_", "D", "o", "e", "_", "boards.example.com", "_">>
        \o Today \o <<ext>>

(* C19, as stated: from an empty store, request_code("a@x.com"), verify_code  *)
(* with the issued code, save_profile with only full_name "Jane Doe" and      *)
(* generate with "https://boards.example.com/job/42" all succeed, and         *)
(* list_recent then returns exactly one record, owned by that account, with   *)
(* that job_url and the file names Resume_Jane_Doe_boards.example.com_<date>  *)
(* .pdf and .docx.                                                            *)
C19_WalkSucceeds ==
    [][\A c \in OneClient :
          /\ ((\E n \in OneNumber : Signin(WalkEmail, n)) /\ users = <<>>)
                => resp'.status = "ok"
          /\ (/\ \E code \in {FormatCode(n) : n \in OneNumber} :
                    /\ Verify(c, WalkEmail, code)
                    /\ \E u \in UserIds : users[u].verify_code = Some(code)
              /\ now = 0)
                => resp'.status = "ok" /\ session'[c] # None
          /\ (/\ ProfilePost(c, [full_name |-> Some(JaneDoe), city |-> None, email |-> None,
                                  phone |-> None, web |-> None, about |-> None,
                                  gemini_api_key |-> None])
              /\ session[c] # None
              /\ profiles = {})
                => /\ resp'.status = "ok"
                   /\ \E p \in profiles' : p.user_id = The(session[c]) /\ p.full_name = JaneDoe
          /\ (/\ \E dir \in TmpDirs : TailorPost(c, WalkUrl, TRUE, dir)
              /\ session[c] # None
              /\ resumes = {}
              /\ \E p \in profiles : p.user_id = The(session[c]) /\ p.full_name = JaneDoe)
                => resp'.status = "ok" /\ Cardinality(resumes') = 1
          /\ (TailorGet(c) /\ session[c] # None /\ Cardinality(resumes) = 1
                /\ \E p \in profiles : p.user_id = The(session[c]) /\ p.full_name = JaneDoe)
                => /\ resp'.status = "ok"
                   /\ Len(resp'.body) = 1
                   /\ resp'.body[1] \in resumes
                   /\ resp'.body[1].user_id = The(session[c])
                   /\ resp'.body[1].job_url = WalkUrl
                   /\ resp'.body[1].pdf_name = WalkFileName(".pdf")
                   /\ resp'.body[1].docx_name = WalkFileName(".docx")]_vars

(* C16: in every state each account has at most one Profile, also when two   *)
(* save_profile requests of an account without a Profile both read 'absent'  *)
(* before either commits: one row results, and the request that commits      *)
(* second fails and changes no table and no file.                            *)
C16_OneProfilePerAccount ==
    [][/\ \A u \in UserIds : Cardinality({p \in profiles' : p.user_id = u}) <= 1
       /\ \A c \in Clients :
             (/\ ProfileCommit(c)
              /\ inflight[c].seen = {}
              /\ ProfileOf(inflight[c].uid) # {})
                 => /\ resp'.status = "error"
                    /\ UNCHANGED <<users, profiles, resumes, fs>>]_vars

(* both requests read 'absent'; one has committed its row, the other has     *)
(* then failed, and the account has the one row of the first                 *)
C16_Witness ==
    /\ resp.op = "save_profile"
    /\ resp.status = "error"
    /\ \A c \in Clients : inflight[c] = Idle /\ session[c] # None
    /\ Cardinality(profiles) = 1

(* no two records have the same pdf_path or the same docx_path *)
NoSharedPath ==
    \A r1, r2 \in resumes :
        r1 # r2 => r1.pdf_path # r2.pdf_path /\ r1.docx_path # r2.docx_path

(* C17: in every state no two records share a pdf_path or a docx_path; of two *)
(* generate requests that overlap, for one account or for two, with the same  *)
(* file names, each writes files that were not there before and each adds a  *)
(* record of its own, whose files are the ones it wrote.                     *)
C17_PathsNeverCollide ==
    [][/\ NoSharedPath'
       /\ \A c \in Clients :
             /\ WritePdf(c) => ~Exists(PathOf(c, inflight[c].pdf_name))
             /\ WriteDocx(c) => ~Exists(PathOf(c, inflight[c].docx_name))
             /\ TailorCommit(c)
                   => /\ resp'.status = "ok"
                      /\ \E r \in resumes' \ resumes :
                            /\ resumes' = resumes \cup {r}
                            /\ r.user_id = inflight[c].uid
                            /\ r.pdf_path = PathOf(c, inflight[c].pdf_name)
                            /\ r.docx_path = PathOf(c, inflight[c].docx_name)]_vars

(* the request begun last has committed its record while an earlier one, with *)
(* the same file names, has written both of its files and not yet committed: *)
(* the two directories differ and the record's files are there               *)
C17_Witness ==
    /\ req.op = "generate"
    /\ resp.op = "generate" /\ resp.status = "ok"
    /\ inflight[req.args[1]] = Idle
    /\ \E c \in Clients \ {req.args[1]} :
          /\ inflight[c].op = "generate"
          /\ inflight[c].stage = "docx"
          /\ \E r \in resumes :
                /\ r.pdf_name = inflight[c].pdf_name
                /\ r.docx_name = inflight[c].docx_name
                /\ r.pdf_path.dir # The(inflight[c].dir)
                /\ Exists(r.pdf_path) /\ Exists(r.docx_path)
                /\ Exists(PathOf(c, inflight[c].pdf_name))

(* C21, as stated: an issued code authenticates at most one verify_code, also *)
(* when two requests for the account with the same correct, unexpired code    *)
(* overlap: a verification succeeds and binds a session only with a code no   *)
(* verification has succeeded with before.                                    *)
C21_OneVerifyPerIssuedCode ==
    [][\A c \in Clients :
          (VerifyCommit(c) /\ hist[inflight[c].email].last = Some(inflight[c].code))
              => ~hist[inflight[c].email].used]_vars

ReapStep == \E dir \in RaceDirs, name \in FileNames : Reap(dir, name)

====
